---- MODULE Spec2Model ----
(***************************************************************************)
(* Model of the JWT authorization provider (plugin.go): registration of   *)
(* handler instances, the lazy bind to the provider pool and the           *)
(* classification of the validator's result into an HTTP response; and of  *)
(* the token grantor (Validate, GrantToken).                                *)
(*                                                                         *)
(* The provider pool (ProviderPool.Register / ProviderPool.Provision), the *)
(* token validator, TokenValidatorOptions.Clone, the redirect helper, the  *)
(* signing method table and UserClaims.GetToken are not part of plugin.go; *)
(* they are modelled from their contracts.                                 *)
(***************************************************************************)
EXTENDS Integers, Sequences, FiniteSets, TLC

\* ------------------------------------------------------------------ bounds
NumThreads == 2
MaxSetups == 2

\* ------------------------------------------------------------- basic values
Threads == 1..NumThreads
Names == {"n1", "n2"}
Handlers == {"h1", "h2", "h3"}
None == "none"
\* The TokenValidatorOptions object a thread's Clone() call allocates.
CloneId(t) == "clone" \o ToString(t)
OptIds == Handlers \cup {CloneId(t) : t \in Threads}

\* AuthProvider.Name of each handler instance: h1 and h2 share one policy name.
HName(h) == IF h = "h3" THEN "n2" ELSE "n1"

NoErr == <<>>
\* An error value is the sequence of fragments of its message.
ErrProvisonFailed == <<"authorization provider provisioning error">>
\* The error the pool returns for a name whose setup failed.
PoolProvisionError(name) == <<"provisioning failed for ", name>>
\* The error the pool returns for a conflicting registration.
PoolRegisterError(name) == <<"conflicting registration for ", name>>
\* fmt.Errorf("authentication provider registration error, instance %s, error: %s", m.Name, err)
ErrRegistration(name, err) ==
    <<"authentication provider registration error, instance ", name, ", error: ">> \o err
ProvisionErrors == {ErrProvisonFailed} \cup {PoolProvisionError(n) : n \in Names}

ForbiddenMarker == <<"user role is valid, but not allowed by">>
ErrForbiddenBare == ForbiddenMarker
ErrForbiddenWrapped == <<"acl: ", "user role is valid, but not allowed by", " access list">>
ErrExpired == <<"token expired">>
ErrNearMiss == <<"user role is not valid, and ", "not allowed by", " access list">>

\* strings.Contains(err.Error(), marker) on fragment sequences.
Contains(msg, sub) ==
    \E i \in 1..(Len(msg) - Len(sub) + 1) : SubSeq(msg, i, i + Len(sub) - 1) = sub

EmptyMap == [k \in {} |-> ""]
EmptyUser == [ID |-> "", Metadata |-> EmptyMap]

RECURSIVE JoinReversed(_, _)
\* Mutant of Join: the elements are joined last to first.
JoinReversed(elems, sep) ==
    IF Len(elems) = 0 THEN ""
    ELSE IF Len(elems) = 1 THEN elems[1]
    ELSE JoinReversed(Tail(elems), sep) \o sep \o elems[1]

RECURSIVE Join(_, _)
\* strings.Join(elems, sep)
Join(elems, sep) ==
    IF Len(elems) = 0 THEN ""
    ELSE IF Len(elems) = 1 THEN elems[1]
    ELSE elems[1] \o sep \o Join(Tail(elems), sep)

\* All orders in which a Go map with key set S can be ranged over.
Perms(S) == {p \in [1..Cardinality(S) -> S] : \A i, j \in 1..Cardinality(S) : p[i] = p[j] => i = j}

\* ------------------------------------------------------------ input domains
CookieNames == {"access_token", "jwt_access_token"}

\* Static configuration of a handler instance (the JSON-loaded fields).
MkCfg(furl, vmp, cookies, pch, qdis) ==
    [ForbiddenURL |-> furl, ValidateMethodPath |-> vmp, Cookies |-> cookies,
     PassClaimsWithHeaders |-> pch, AuthURLPath |-> "/auth",
     AuthRedirectQueryDisabled |-> qdis, AuthRedirectQueryParameter |-> "redirect_url"]

CfgA == MkCfg("/forbidden", TRUE, {"jwt_access_token"}, TRUE, FALSE)
CfgB == MkCfg("", FALSE, {"access_token"}, FALSE, TRUE)
CfgsSeq ==
    {MkCfg(f, v, c, p, q) : f \in {"", "/forbidden"}, v \in BOOLEAN,
                            c \in SUBSET CookieNames, p \in BOOLEAN, q \in BOOLEAN}

NoHeaders == [k \in {"X-Token-User-Name", "X-Token-User-Email",
                     "X-Token-User-Roles", "X-Token-Subject"} |-> ""]
MkReq(method, path, hdr) == [Method |-> method, Path |-> path, Header |-> hdr]
\* The request thread t serves in the concurrent specification: distinct
\* threads carry distinct methods and paths.
ReqsConc(t) == {MkReq(IF t % 2 = 1 THEN "GET" ELSE "POST", "/p" \o ToString(t), NoHeaders)}
\* Requests of the sequential specification: with and without client-supplied
\* X-Token-* headers.
ClientHeaders == [k \in DOMAIN NoHeaders |-> "evil"]
ReqsSeq == {MkReq("GET", "/a", hdr) : hdr \in {NoHeaders, ClientHeaders}}
DefaultReq == MkReq("", "", NoHeaders)

MkClaims(email, name, roles, sub) ==
    [nil |-> FALSE, Email |-> email, Name |-> name, Roles |-> roles, Subject |-> sub]
NilClaims == [nil |-> TRUE, Email |-> "", Name |-> "", Roles |-> <<>>, Subject |-> ""]
ClaimsFull == MkClaims("a@b.com", "Bob", <<"admin", "user">>, "bob")
ClaimsEmpty == MkClaims("", "", <<>>, "")

\* Results of TokenValidator.Authorize: (claims, validUser, err).
MkVRes(claims, valid, err) == [claims |-> claims, validUser |-> valid, err |-> err]
VErrs == {ErrForbiddenBare, ErrForbiddenWrapped, ErrExpired, ErrNearMiss}
VResConc ==
    {MkVRes(NilClaims, FALSE, ErrForbiddenWrapped), MkVRes(ClaimsFull, TRUE, NoErr)}
ClaimsSeq ==
    {MkClaims(e, n, r, sub) : e \in {"", "a@b.com"}, n \in {"", "Bob"},
                             r \in {<<>>, <<"admin">>, <<"admin", "user">>},
                             sub \in {"", "bob"}}
VResSeq ==
    {MkVRes(NilClaims, FALSE, e) : e \in VErrs}
    \cup {MkVRes(c, v, NoErr) : c \in ClaimsSeq \cup {NilClaims}, v \in BOOLEAN}
DefaultVRes == MkVRes(NilClaims, FALSE, NoErr)

\* Grantor errors.
ErrEmptySecret == <<"grantor token secret not configured">>
ErrNoClaims == <<"provided claims are nil">>
\* ErrUnsupportedSigningMethod.WithArgs(method)
ErrUnsupportedSigningMethod(method) ==
    <<"grantor does not support ", method, " token signing method">>
\* An error of the claim set's signing routine.
ErrSigning == <<"token signing failed">>

\* The keys of the signing method table.
methods == {"HS256", "HS384", "HS512"}
\* Method names, token secrets and claim sets the grantor is called with.
MethodArgs == {"HS256", "HS512", "RS256", ""}
Secrets == {"", "s1", "s2"}
ClaimArgs == {NilClaims, ClaimsFull}

\* What the signing routine does with its arguments: a token or an error.
SignBehaviours == {"token", "error"}
NoSign == "none"

\* claims.GetToken(method, secret): the signed token, a function of the claim
\* set, the method and the secret, or a signing error.
GetToken(claims, method, secret, sign) ==
    IF sign = "token"
    THEN [token |-> method \o "." \o claims.Email \o "/" \o claims.Subject \o "." \o secret,
          err |-> NoErr]
    ELSE [token |-> "", err |-> ErrSigning]

\* ------------------------------------------------------------------- state
VARIABLES
    handlers,    \* handler instance -> its mutable fields (Provisioned, ProvisionFailed, ready)
    config,      \* handler instance -> its static configuration
    regState,    \* handler instance -> outcome of AuthProvider.Provision (module lifecycle)
    provErr,     \* handler instance -> the error AuthProvider.Provision returned
    pool,        \* ProviderPool: policy name -> registered handler instance
    inflight,    \* policy name -> thread running the one-time setup (0: none)
    setupCount,  \* policy name -> number of executions of the one-time setup
    optsMeta,    \* TokenValidatorOptions object -> its Metadata map
    thr,         \* thread -> the call it is executing
    grantor,     \* the TokenGrantor instance
    gcall,       \* the last call on the grantor, with its arguments and results
    signLog      \* the invocations of the claim set's signing routine so far

pvars == <<handlers, config, regState, provErr, pool, inflight, setupCount, optsMeta, thr>>
gvars == <<grantor, gcall, signLog>>
vars == <<pvars, gvars>>

\* Metadata map of a TokenValidatorOptions object.
NoMeta == [method |-> "", path |-> ""]

NewResponse ==
    [status |-> 0, nwrites |-> 0, body |-> <<>>,
     location |-> <<>>, cookies |-> <<>>,
     sentLocation |-> <<>>, sentCookies |-> <<>>,
     \* the X-Token-* headers of the response
     xtoken |-> NoHeaders]

IdleThread ==
    [pc |-> "idle", op |-> None, h |-> None, name |-> None,
     m |-> [Provisioned |-> FALSE, ProvisionFailed |-> FALSE, ready |-> FALSE, cfg |-> CfgB],
     src |-> None,
     r |-> DefaultReq, w |-> NewResponse, opts |-> None,
     v |-> DefaultVRes,
     user |-> EmptyUser, authenticated |-> FALSE, err |-> NoErr, inst |-> None,
     returned |-> FALSE, nret |-> 0, panic |-> FALSE, outcome |-> None,
     \* history of the call, for stating the properties
     failedAtEntry |-> FALSE, flagAtEntry |-> FALSE, consulted |-> FALSE, observed |-> None,
     validated |-> FALSE, readyAtValidate |-> FALSE, optsAtValidate |-> NoMeta]

\* NewTokenGrantor(): g := &TokenGrantor{}. `validated` records whether
\* Validate() has been called on the instance (history, not a field).
NewTokenGrantor == [TokenSecret |-> "", validated |-> FALSE]

\* No call on the grantor yet.
NoCall ==
    [op |-> None, method |-> "", claims |-> NilClaims, secret |-> "", sign |-> NoSign,
     token |-> "", err |-> NoErr, signed |-> FALSE, validatedBefore |-> FALSE]

\* Mutant of FreshHandler: an instance is created with Provisioned set.
FreshHandlerProvisioned == [Provisioned |-> TRUE, ProvisionFailed |-> FALSE, ready |-> FALSE]

\* The json:"-" fields of a handler instance as the configuration loader
\* leaves them.
FreshHandler == [Provisioned |-> FALSE, ProvisionFailed |-> FALSE, ready |-> FALSE]

InitCommon ==
    /\ handlers = [h \in Handlers |-> FreshHandler]
    /\ regState = [h \in Handlers |-> "new"]
    /\ provErr = [h \in Handlers |-> NoErr]
    /\ pool = [n \in Names |-> None]
    /\ inflight = [n \in Names |-> 0]
    /\ setupCount = [n \in Names |-> 0]
    /\ optsMeta = [o \in OptIds |-> NoMeta]
    /\ thr = [t \in Threads |-> IdleThread]
    /\ grantor = NewTokenGrantor
    /\ gcall = NoCall
    /\ signLog = {}

Init ==
    /\ InitCommon
    /\ config = [h \in Handlers |-> IF HName(h) = "n1" THEN CfgA ELSE CfgB]

\* ------------------------------------------------- http.ResponseWriter calls
\* w.WriteHeader(code): the first call fixes the status and sends the headers.
WriteHeader(w, code) ==
    [w EXCEPT !.status = IF w.nwrites = 0 THEN code ELSE @,
              !.sentLocation = IF w.nwrites = 0 THEN w.location ELSE @,
              !.sentCookies = IF w.nwrites = 0 THEN w.cookies ELSE @,
              !.nwrites = @ + 1]

\* w.Write(body): writes the status 200 first when none was written.
Write(w, b) ==
    LET w1 == IF w.nwrites = 0 THEN WriteHeader(w, 200) ELSE w
    IN [w1 EXCEPT !.body = Append(@, b)]

\* w.Header().Set("Location", url)
SetLocation(w, url) == [w EXCEPT !.location = <<url>>]

\* Mutant of AddSetCookie: Header().Set in place of Header().Add.
AddSetCookieReplacing(w, value) == [w EXCEPT !.cookies = <<value>>]

\* w.Header().Add("Set-Cookie", value)
AddSetCookie(w, value) == [w EXCEPT !.cookies = Append(@, value)]

\* The cookie-expire header value of one cookie name.
ExpireCookie(k) == k \o "=delete; path=/; expires=Thu, 01 Jan 1970 00:00:00 GMT"

RECURSIVE PurgeCookies(_, _)
\* for k := range m.TokenValidator.Cookies { w.Header().Add("Set-Cookie", ...) },
\* with the keys visited in the given order.
PurgeCookies(w, order) ==
    IF Len(order) = 0 THEN w
    ELSE PurgeCookies(AddSetCookie(w, ExpireCookie(Head(order))), Tail(order))

\* The login redirect target computed by the redirect helper.
LoginRedirect(r, cfg) ==
    IF cfg.AuthRedirectQueryDisabled THEN cfg.AuthURLPath
    ELSE cfg.AuthURLPath \o "?" \o cfg.AuthRedirectQueryParameter \o "=" \o r.Path

\* addRedirectLocationHeader(w, r, authURLPath, queryDisabled, queryParameter)
addRedirectLocationHeader(w, r, cfg) == SetLocation(w, LoginRedirect(r, cfg))

\* ---------------------------------------------------------- the provider pool
\* ProviderPool.Register(m): insert if absent; a second instance of the same
\* logical policy shares the entry; a differently configured one is refused.
PoolRegister(p, cfgs, h) ==
    LET n == HName(h) IN
    IF p[n] = None THEN [pool |-> [p EXCEPT ![n] = h], err |-> NoErr]
    ELSE IF cfgs[p[n]] = cfgs[h] THEN [pool |-> p, err |-> NoErr]
    ELSE [pool |-> p, err |-> PoolRegisterError(n)]

\* The lifecycle state of the registry entry of a policy name.
EntryState(n) ==
    IF pool[n] = None THEN "absent"
    ELSE IF handlers[pool[n]].ProvisionFailed THEN "failed"
    ELSE IF handlers[pool[n]].Provisioned THEN "provisioned"
    ELSE IF inflight[n] # 0 THEN "provisioning"
    ELSE "unprovisioned"

\* What ProviderPool.Provision(name) returns once the entry is settled.
PoolProvisionResult(n) ==
    IF EntryState(n) = "provisioned" THEN [inst |-> pool[n], err |-> NoErr]
    ELSE [inst |-> None, err |-> PoolProvisionError(n)]

\* ------------------------------------------------ AuthProvider.Authenticate
\* A return statement of Authenticate: (user, authenticated, err).
Return(s, user, ok, err, outcome) ==
    [s EXCEPT !.returned = TRUE, !.nret = @ + 1, !.pc = "done",
              !.user = user, !.authenticated = ok, !.err = err, !.outcome = outcome]

\* Mutant of Respond500: the login redirect is added to the 500 response.
Respond500Redirecting(s, err) ==
    Return([s EXCEPT !.w = Write(WriteHeader(addRedirectLocationHeader(s.w, s.r, s.m.cfg), 500),
                                 "Internal Server Error")],
           EmptyUser, FALSE, err, "provision_failed")

\* w.WriteHeader(500); w.Write(`Internal Server Error`); return User{}, false, err
Respond500(s, err) ==
    Return([s EXCEPT !.w = Write(WriteHeader(s.w, 500), "Internal Server Error")],
           EmptyUser, FALSE, err, "provision_failed")

\* Mutant of EntryCheck: the lazy bind is missing.
EntryCheckNoBind(s) ==
    IF s.m.ProvisionFailed THEN Respond500(s, ErrProvisonFailed)
    ELSE [s EXCEPT !.pc = "opts"]

\* Mutant of EntryCheck: the ProvisionFailed test is missing.
EntryCheckNoFailedTest(s) ==
    IF ~s.m.Provisioned THEN [s EXCEPT !.pc = "bind", !.consulted = TRUE]
    ELSE [s EXCEPT !.pc = "opts"]

\* if m.ProvisionFailed {...}; if !m.Provisioned { -> lazy bind } else { -> options }
EntryCheck(s) ==
    IF s.m.ProvisionFailed THEN Respond500(s, ErrProvisonFailed)
    ELSE IF ~s.m.Provisioned THEN [s EXCEPT !.pc = "bind", !.consulted = TRUE]
    ELSE [s EXCEPT !.pc = "opts"]

\* Mutant of LazyBind: the pool's error is dropped and the call goes on.
LazyBindIgnoreErr(s, res, fields, cfg) ==
    IF res.err # NoErr THEN [s EXCEPT !.observed = "fail", !.pc = "opts"]
    ELSE [s EXCEPT !.m = [Provisioned |-> fields.Provisioned,
                          ProvisionFailed |-> fields.ProvisionFailed,
                          ready |-> fields.ready, cfg |-> cfg],
                   !.src = res.inst, !.observed = "ok", !.pc = "opts"]

\* provisionedInstance, err := ProviderPool.Provision(m.Name); on error respond
\* 500 and return err, otherwise m = *provisionedInstance.
LazyBind(s, res, fields, cfg) ==
    IF res.err # NoErr THEN [Respond500(s, res.err) EXCEPT !.observed = "fail"]
    ELSE [s EXCEPT !.m = [Provisioned |-> fields.Provisioned,
                          ProvisionFailed |-> fields.ProvisionFailed,
                          ready |-> fields.ready, cfg |-> cfg],
                   !.src = res.inst, !.observed = "ok", !.pc = "opts"]

\* opts.Metadata[key] = value on the options object o.
SetMeta(meta, o, key, value) == [meta EXCEPT ![o][key] = value]

\* TokenValidatorOptions.Clone(): a fresh object dst, independent of src.
CloneOpts(meta, src, dst) == [meta EXCEPT ![dst] = meta[src]]

\* Mutant of PrepareOpts: method and path are written into the shared options.
PrepareOptsInPlace(s, meta, fresh) ==
    IF s.m.cfg.ValidateMethodPath
    THEN [s |-> [s EXCEPT !.opts = s.src, !.pc = "validate"],
          meta |-> SetMeta(SetMeta(meta, s.src, "method", s.r.Method), s.src, "path", s.r.Path)]
    ELSE [s |-> [s EXCEPT !.opts = s.src, !.pc = "validate"], meta |-> meta]

\* Option preparation: clone and inject method and path when
\* ValidateMethodPath is set, otherwise pass the shared options.
PrepareOpts(s, meta, fresh) ==
    IF s.m.cfg.ValidateMethodPath
    THEN [s |-> [s EXCEPT !.opts = fresh, !.pc = "validate"],
          meta |-> SetMeta(SetMeta(CloneOpts(meta, s.src, fresh), fresh, "method", s.r.Method),
                           fresh, "path", s.r.Path)]
    ELSE [s |-> [s EXCEPT !.opts = s.src, !.pc = "validate"], meta |-> meta]

\* The call goes on to option preparation unless it has returned or waits
\* for the pool.
Continue(s, meta, fresh) ==
    IF s.pc = "opts" THEN PrepareOpts(s, meta, fresh) ELSE [s |-> s, meta |-> meta]

\* The cookie purge, the login redirect, status 302 and the body.
Unauthorized302(s, order, body) ==
    [s EXCEPT !.w = Write(WriteHeader(addRedirectLocationHeader(PurgeCookies(s.w, order),
                                                               s.r, s.m.cfg), 302), body)]

\* Mutant of StepValidatorErr: the Location header is set after WriteHeader(303).
StepValidatorErrLateLocation(s, order) ==
    IF s.returned \/ s.v.err = NoErr THEN s
    ELSE IF Contains(s.v.err, ForbiddenMarker)
    THEN LET w1 == IF s.m.cfg.ForbiddenURL # ""
                   THEN SetLocation(WriteHeader(s.w, 303), s.m.cfg.ForbiddenURL)
                   ELSE WriteHeader(s.w, 403)
         IN Return([s EXCEPT !.w = Write(w1, "Forbidden")], EmptyUser, FALSE, s.v.err, "forbidden")
    ELSE Return(Unauthorized302(s, order, "Unauthorized"), EmptyUser, FALSE, s.v.err, "unauthorized")

\* Mutant of StepValidatorErr: the forbidden branch always redirects with 303.
StepValidatorErrAlways303(s, order) ==
    IF s.returned \/ s.v.err = NoErr THEN s
    ELSE IF Contains(s.v.err, ForbiddenMarker)
    THEN LET w1 == WriteHeader(SetLocation(s.w, s.m.cfg.ForbiddenURL), 303)
         IN Return([s EXCEPT !.w = Write(w1, "Forbidden")], EmptyUser, FALSE, s.v.err, "forbidden")
    ELSE Return(Unauthorized302(s, order, "Unauthorized"), EmptyUser, FALSE, s.v.err, "unauthorized")

\* if err != nil { forbidden: 303/403 `Forbidden`; otherwise 302 `Unauthorized` }
StepValidatorErr(s, order) ==
    IF s.returned \/ s.v.err = NoErr THEN s
    ELSE IF Contains(s.v.err, ForbiddenMarker)
    THEN LET w1 == IF s.m.cfg.ForbiddenURL # ""
                   THEN WriteHeader(SetLocation(s.w, s.m.cfg.ForbiddenURL), 303)
                   ELSE WriteHeader(s.w, 403)
         IN Return([s EXCEPT !.w = Write(w1, "Forbidden")], EmptyUser, FALSE, s.v.err, "forbidden")
    ELSE Return(Unauthorized302(s, order, "Unauthorized"), EmptyUser, FALSE, s.v.err, "unauthorized")

\* Mutant of StepInvalidUser: the validUser test is missing.
StepInvalidUserSkipped(s, order) == s

\* Mutant of StepInvalidUser: the return statement is missing.
StepInvalidUserFallthrough(s, order) ==
    IF s.returned \/ s.v.validUser THEN s
    ELSE Unauthorized302(s, order, "Unauthorized User")

\* if !validUser { 302 `Unauthorized User`; return User{}, false, nil }
StepInvalidUser(s, order) ==
    IF s.returned \/ s.v.validUser THEN s
    ELSE Return(Unauthorized302(s, order, "Unauthorized User"), EmptyUser, FALSE, NoErr, "invalid_user")

\* Mutant of StepNilClaims: the nil test is missing.
StepNilClaimsMissing(s, order) == s

\* if userClaims == nil { 302 `User Unauthorized`; return User{}, false, nil }
StepNilClaims(s, order) ==
    IF s.returned \/ ~s.v.claims.nil THEN s
    ELSE Return(Unauthorized302(s, order, "User Unauthorized"), EmptyUser, FALSE, NoErr, "nil_claims")

\* r.Header.Set(key, value)
SetReqHeader(r, key, value) == [r EXCEPT !.Header[key] = value]

\* Mutant of StepSuccess: the claim headers are set on the response.
StepSuccessOntoResponse(s) ==
    IF s.returned THEN s
    ELSE IF s.v.claims.nil THEN [s EXCEPT !.panic = TRUE, !.pc = "done"]
    ELSE
    LET c == s.v.claims
        pass == s.m.cfg.PassClaimsWithHeaders
        md0 == ("roles" :> Join(c.Roles, " "))
        md1 == IF c.Name # "" THEN ("name" :> c.Name) @@ md0 ELSE md0
        md2 == IF c.Email # "" THEN ("email" :> c.Email) @@ md1 ELSE md1
        x1 == IF c.Name # "" /\ pass THEN [s.w.xtoken EXCEPT !["X-Token-User-Name"] = c.Name]
              ELSE s.w.xtoken
        x2 == IF c.Email # "" /\ pass THEN [x1 EXCEPT !["X-Token-User-Email"] = c.Email] ELSE x1
        x3 == IF pass /\ Len(c.Roles) > 0
              THEN [x2 EXCEPT !["X-Token-User-Roles"] = Join(c.Roles, " ")] ELSE x2
        x4 == IF pass /\ c.Subject # "" THEN [x3 EXCEPT !["X-Token-Subject"] = c.Subject] ELSE x3
    IN Return([s EXCEPT !.w.xtoken = x4], [ID |-> c.Email, Metadata |-> md2], TRUE, NoErr, "success")

\* Identity construction and claim headers on the forwarded request.
StepSuccess(s) ==
    IF s.returned THEN s
    ELSE IF s.v.claims.nil THEN [s EXCEPT !.panic = TRUE, !.pc = "done"]
    ELSE
    LET c == s.v.claims
        pass == s.m.cfg.PassClaimsWithHeaders
        md0 == ("roles" :> Join(c.Roles, " "))
        md1 == IF c.Name # "" THEN ("name" :> c.Name) @@ md0 ELSE md0
        md2 == IF c.Email # "" THEN ("email" :> c.Email) @@ md1 ELSE md1
        r1 == IF c.Name # "" /\ pass THEN SetReqHeader(s.r, "X-Token-User-Name", c.Name) ELSE s.r
        r2 == IF c.Email # "" /\ pass THEN SetReqHeader(r1, "X-Token-User-Email", c.Email) ELSE r1
        r3 == IF pass /\ Len(c.Roles) > 0
              THEN SetReqHeader(r2, "X-Token-User-Roles", Join(c.Roles, " ")) ELSE r2
        r4 == IF pass /\ c.Subject # "" THEN SetReqHeader(r3, "X-Token-Subject", c.Subject) ELSE r3
    IN Return([s EXCEPT !.r = r4], [ID |-> c.Email, Metadata |-> md2], TRUE, NoErr, "success")

\* userClaims, validUser, err := m.TokenValidator.Authorize(r, opts) and all
\* that follows it, up to the return.
AuthTail(s, vres, order, meta) ==
    LET s0 == [s EXCEPT !.v = vres, !.validated = TRUE, !.readyAtValidate = s.m.ready,
                        !.optsAtValidate = meta[s.opts]]
    IN StepSuccess(StepNilClaims(StepInvalidUser(StepValidatorErr(s0, order), order), order))

\* ----------------------------------------------------------------- actions
\* Mutant of HandlerProvision: the error of Register is dropped.
HandlerProvisionIgnoreErr(h) ==
    /\ regState[h] = "new"
    /\ LET res == PoolRegister(pool, config, h) IN
        /\ pool' = res.pool
        /\ regState' = [regState EXCEPT ![h] = "registered"]
        /\ provErr' = [provErr EXCEPT ![h] = NoErr]
    /\ UNCHANGED <<handlers, config, inflight, setupCount, optsMeta, thr, gvars>>

\* AuthProvider.Provision(ctx): registers the instance with the pool.
HandlerProvision(h) ==
    /\ regState[h] = "new"
    /\ LET res == PoolRegister(pool, config, h) IN
        /\ pool' = res.pool
        /\ regState' = [regState EXCEPT ![h] = IF res.err = NoErr THEN "registered" ELSE "rejected"]
        /\ provErr' = [provErr EXCEPT ![h] = IF res.err = NoErr THEN NoErr
                                             ELSE ErrRegistration(HName(h), res.err)]
    /\ UNCHANGED <<handlers, config, inflight, setupCount, optsMeta, thr, gvars>>

\* A request enters Authenticate on handler h. The value receiver is a copy
\* of *h taken without synchronisation, so the copy is not atomic: the
\* runtime configuration is read here and the two flags in AuthEntry, with
\* other threads' steps in between. (The other order shows nothing more: a
\* copy that reads Provisioned = false first is rebound from the pool, and
\* one that reads a flag as true first reads a configuration that is final.)
\* The host routes requests only to instances whose Provision returned nil.
AuthEnter(t, h, req) ==
    /\ thr[t].pc = "idle"
    /\ regState[h] = "registered"
    /\ LET s0 == [IdleThread EXCEPT !.pc = "copy", !.op = "auth", !.h = h, !.name = HName(h),
                                    !.src = h, !.r = req, !.m.cfg = config[h],
                                    !.failedAtEntry = (EntryState(HName(h)) = "failed"),
                                    !.flagAtEntry = handlers[h].ProvisionFailed]
       IN thr' = [thr EXCEPT ![t] = [s0 EXCEPT !.m.ready = handlers[h].ready]]
    /\ UNCHANGED <<handlers, config, regState, provErr, pool, inflight, setupCount, optsMeta, gvars>>

\* The copy completes, then the entry check and the Provisioned test.
AuthEntry(t) ==
    /\ thr[t].pc = "copy"
    /\ LET s == thr[t]
           h == s.h
           s1 == [s EXCEPT !.m.Provisioned = handlers[h].Provisioned,
                           !.m.ProvisionFailed = handlers[h].ProvisionFailed]
           res == Continue(EntryCheck(s1), optsMeta, CloneId(t))
       IN /\ thr' = [thr EXCEPT ![t] = res.s]
          /\ optsMeta' = res.meta
    /\ UNCHANGED <<handlers, config, regState, provErr, pool, inflight, setupCount, gvars>>

\* A direct caller of ProviderPool.Provision(name).
DirectProvision(t, n) ==
    /\ thr[t].pc = "idle"
    /\ pool[n] # None
    /\ thr' = [thr EXCEPT ![t] = [IdleThread EXCEPT !.pc = "bind", !.op = "prov", !.name = n,
                                                     !.consulted = TRUE,
                                                     !.failedAtEntry = (EntryState(n) = "failed")]]
    /\ UNCHANGED <<handlers, config, regState, provErr, pool, inflight, setupCount, optsMeta, gvars>>

\* ProviderPool.Provision(name): the caller finds the entry unprovisioned and
\* no setup in flight, and becomes the one that runs the setup.
PoolSetupBegin(t) ==
    /\ thr[t].pc = "bind"
    /\ EntryState(thr[t].name) = "unprovisioned"
    /\ setupCount[thr[t].name] < MaxSetups
    /\ inflight' = [inflight EXCEPT ![thr[t].name] = t]
    /\ setupCount' = [setupCount EXCEPT ![thr[t].name] = @ + 1]
    /\ thr' = [thr EXCEPT ![t].pc = "setup1"]
    /\ UNCHANGED <<handlers, config, regState, provErr, pool, optsMeta, gvars>>

\* The setup initialises the entry's runtime configuration in place.
PoolSetupInit(t) ==
    /\ thr[t].pc = "setup1"
    /\ handlers' = [handlers EXCEPT ![pool[thr[t].name]].ready = TRUE]
    /\ thr' = [thr EXCEPT ![t].pc = "setup2"]
    /\ UNCHANGED <<config, regState, provErr, pool, inflight, setupCount, optsMeta, gvars>>

\* The setup ends: it fails before the configuration is complete and the
\* entry is marked failed for good, or it has completed the configuration
\* and the entry is marked provisioned.
PoolSetupFinish(t, ok) ==
    /\ thr[t].pc \in {"setup1", "setup2"}
    /\ ok <=> thr[t].pc = "setup2"
    /\ handlers' = [handlers EXCEPT ![pool[thr[t].name]] =
                        IF ok THEN [@ EXCEPT !.Provisioned = TRUE]
                        ELSE [@ EXCEPT !.ProvisionFailed = TRUE]]
    /\ inflight' = [inflight EXCEPT ![thr[t].name] = 0]
    /\ thr' = [thr EXCEPT ![t].pc = "bind"]
    /\ UNCHANGED <<config, regState, provErr, pool, setupCount, optsMeta, gvars>>

\* Mutant of PoolProvisionReturn: the pool answers under one lock that a
\* setup of any name holds while it runs.
PoolProvisionReturnGlobalLock(t) ==
    /\ thr[t].pc = "bind"
    /\ EntryState(thr[t].name) \in {"provisioned", "failed"}
    /\ \A n \in Names : inflight[n] = 0
    /\ LET s == thr[t]
           res == PoolProvisionResult(s.name)
           e == pool[s.name]
           out == IF s.op = "auth"
                  THEN Continue(LazyBind(s, res, handlers[e], config[e]), optsMeta, CloneId(t))
                  ELSE [s |-> [s EXCEPT !.pc = "done", !.inst = res.inst, !.err = res.err,
                                        !.observed = IF res.err = NoErr THEN "ok" ELSE "fail"],
                        meta |-> optsMeta]
       IN /\ thr' = [thr EXCEPT ![t] = out.s]
          /\ optsMeta' = out.meta
    /\ UNCHANGED <<handlers, config, regState, provErr, pool, inflight, setupCount, gvars>>

\* ProviderPool.Provision(name) returns: the entry is provisioned or failed.
\* Authenticate goes on with its lazy bind; a direct caller is done.
PoolProvisionReturn(t) ==
    /\ thr[t].pc = "bind"
    /\ EntryState(thr[t].name) \in {"provisioned", "failed"}
    /\ LET s == thr[t]
           res == PoolProvisionResult(s.name)
           e == pool[s.name]
           out == IF s.op = "auth"
                  THEN Continue(LazyBind(s, res, handlers[e], config[e]), optsMeta, CloneId(t))
                  ELSE [s |-> [s EXCEPT !.pc = "done", !.inst = res.inst, !.err = res.err,
                                        !.observed = IF res.err = NoErr THEN "ok" ELSE "fail"],
                        meta |-> optsMeta]
       IN /\ thr' = [thr EXCEPT ![t] = out.s]
          /\ optsMeta' = out.meta
    /\ UNCHANGED <<handlers, config, regState, provErr, pool, inflight, setupCount, gvars>>

\* The validator is called and its result classified into a response.
AuthValidate(t, vres, order) ==
    /\ thr[t].pc = "validate"
    /\ order \in Perms(thr[t].m.cfg.Cookies)
    /\ thr' = [thr EXCEPT ![t] = AuthTail(thr[t], vres, order, optsMeta)]
    /\ UNCHANGED <<handlers, config, regState, provErr, pool, inflight, setupCount, optsMeta, gvars>>

\* The call is over; the thread takes the next request.
ThreadReturn(t) ==
    /\ thr[t].pc = "done"
    /\ thr' = [thr EXCEPT ![t] = IdleThread]
    /\ optsMeta' = [optsMeta EXCEPT ![CloneId(t)] = NoMeta]
    /\ UNCHANGED <<handlers, config, regState, provErr, pool, inflight, setupCount, gvars>>

Orders == UNION {Perms(S) : S \in SUBSET CookieNames}

Next ==
    \/ \E h \in Handlers : HandlerProvision(h)
    \/ \E t \in Threads, h \in Handlers : \E req \in ReqsConc(t) : AuthEnter(t, h, req)
    \/ \E t \in Threads : AuthEntry(t)
    \/ \E t \in Threads, n \in Names : DirectProvision(t, n)
    \/ \E t \in Threads : PoolSetupBegin(t)
    \/ \E t \in Threads : PoolSetupInit(t)
    \/ \E t \in Threads, ok \in BOOLEAN : PoolSetupFinish(t, ok)
    \/ \E t \in Threads : PoolProvisionReturn(t)
    \/ \E t \in Threads, vres \in VResConc, order \in Orders : AuthValidate(t, vres, order)
    \/ \E t \in Threads : ThreadReturn(t)

Spec == Init /\ [][Next]_vars

\* The sequential specification: one thread, one handler instance, with the
\* configuration, the request and the validator's result drawn from the full
\* input domains.
InitSeq ==
    /\ InitCommon
    /\ \E c \in CfgsSeq : config = [h \in Handlers |-> c]

NextSeq ==
    \/ HandlerProvision("h1")
    \/ \E req \in ReqsSeq : AuthEnter(1, "h1", req)
    \/ AuthEntry(1)
    \/ DirectProvision(1, "n1")
    \/ PoolSetupBegin(1)
    \/ PoolSetupInit(1)
    \/ \E ok \in BOOLEAN : PoolSetupFinish(1, ok)
    \/ PoolProvisionReturn(1)
    \/ \E vres \in VResSeq, order \in Orders : AuthValidate(1, vres, order)
    \/ ThreadReturn(1)

SpecSeq == InitSeq /\ [][NextSeq]_vars

\* The lifecycle specification: all threads and handler instances, as in
\* Spec, with a validator that accepts every request (its answer has no
\* part in the registry's state).
VResAccept == {MkVRes(ClaimsFull, TRUE, NoErr)}

NextPool ==
    \/ \E h \in Handlers : HandlerProvision(h)
    \/ \E t \in Threads, h \in Handlers : \E req \in ReqsConc(t) : AuthEnter(t, h, req)
    \/ \E t \in Threads : AuthEntry(t)
    \/ \E t \in Threads, n \in Names : DirectProvision(t, n)
    \/ \E t \in Threads : PoolSetupBegin(t)
    \/ \E t \in Threads : PoolSetupInit(t)
    \/ \E t \in Threads, ok \in BOOLEAN : PoolSetupFinish(t, ok)
    \/ \E t \in Threads : PoolProvisionReturn(t)
    \/ \E t \in Threads, vres \in VResAccept, order \in Orders : AuthValidate(t, vres, order)
    \/ \E t \in Threads : ThreadReturn(t)

SpecPool == Init /\ [][NextPool]_vars

\* The registration specification: the handler instances of a name may be
\* configured alike or differently; they register in any order, and one
\* thread serves requests on the registered ones.
InitReg ==
    /\ InitCommon
    /\ config \in [Handlers -> {CfgA, CfgB}]

NextReg ==
    \/ \E h \in Handlers : HandlerProvision(h)
    \/ \E h \in Handlers : \E req \in ReqsConc(1) : AuthEnter(1, h, req)
    \/ AuthEntry(1)
    \/ \E n \in Names : DirectProvision(1, n)
    \/ PoolSetupBegin(1)
    \/ PoolSetupInit(1)
    \/ \E ok \in BOOLEAN : PoolSetupFinish(1, ok)
    \/ PoolProvisionReturn(1)
    \/ \E vres \in VResConc, order \in Orders : AuthValidate(1, vres, order)
    \/ ThreadReturn(1)

SpecReg == InitReg /\ [][NextReg]_vars

\* ------------------------------------------------------------ TokenGrantor
\* func (g *TokenGrantor) Validate() error
Validate(g) == IF g.TokenSecret = "" THEN ErrEmptySecret ELSE NoErr

\* Mutant of GrantToken: the secret is tested before the method and the claims.
GrantTokenSecretFirst(g, method, claims, sign) ==
    IF g.TokenSecret = ""
    THEN [token |-> "", err |-> ErrEmptySecret, signed |-> FALSE]
    ELSE IF method \notin methods
    THEN [token |-> "", err |-> ErrUnsupportedSigningMethod(method), signed |-> FALSE]
    ELSE IF claims.nil
    THEN [token |-> "", err |-> ErrNoClaims, signed |-> FALSE]
    ELSE LET res == GetToken(claims, method, g.TokenSecret, sign)
         IN [token |-> res.token, err |-> res.err, signed |-> TRUE]

\* Mutant of GrantToken: the secret is not tested; Validate() is relied upon.
GrantTokenNoSecretTest(g, method, claims, sign) ==
    IF method \notin methods
    THEN [token |-> "", err |-> ErrUnsupportedSigningMethod(method), signed |-> FALSE]
    ELSE IF claims.nil
    THEN [token |-> "", err |-> ErrNoClaims, signed |-> FALSE]
    ELSE LET res == GetToken(claims, method, g.TokenSecret, sign)
         IN [token |-> res.token, err |-> res.err, signed |-> TRUE]

\* func (g *TokenGrantor) GrantToken(method string, claims *UserClaims) (string, error)
\* `signed` tells whether claims.GetToken was called.
GrantToken(g, method, claims, sign) ==
    IF method \notin methods
    THEN [token |-> "", err |-> ErrUnsupportedSigningMethod(method), signed |-> FALSE]
    ELSE IF claims.nil
    THEN [token |-> "", err |-> ErrNoClaims, signed |-> FALSE]
    ELSE IF g.TokenSecret = ""
    THEN [token |-> "", err |-> ErrEmptySecret, signed |-> FALSE]
    ELSE LET res == GetToken(claims, method, g.TokenSecret, sign)
         IN [token |-> res.token, err |-> res.err, signed |-> TRUE]

\* g := NewTokenGrantor()
GrantorNew ==
    /\ grantor' = NewTokenGrantor
    /\ UNCHANGED <<gcall, signLog, pvars>>

\* The configuration loader or the caller assigns g.TokenSecret.
GrantorConfigure(secret) ==
    /\ grantor' = [grantor EXCEPT !.TokenSecret = secret]
    /\ UNCHANGED <<gcall, signLog, pvars>>

\* err := g.Validate()
GrantorValidate ==
    /\ gcall' = [NoCall EXCEPT !.op = "Validate", !.secret = grantor.TokenSecret,
                               !.err = Validate(grantor),
                               !.validatedBefore = grantor.validated]
    /\ grantor' = [grantor EXCEPT !.validated = TRUE]
    /\ UNCHANGED <<signLog, pvars>>

\* token, err := g.GrantToken(method, claims)
GrantorGrantToken(method, claims, sign) ==
    /\ LET res == GrantToken(grantor, method, claims, sign) IN
        /\ gcall' = [op |-> "GrantToken", method |-> method, claims |-> claims,
                     secret |-> grantor.TokenSecret,
                     sign |-> IF res.signed THEN sign ELSE NoSign,
                     token |-> res.token, err |-> res.err, signed |-> res.signed,
                     validatedBefore |-> grantor.validated]
        /\ signLog' = IF res.signed
                      THEN signLog \cup {[method |-> method, claims |-> claims,
                                          secret |-> grantor.TokenSecret]}
                      ELSE signLog
    /\ UNCHANGED <<grantor, pvars>>

\* The grantor specification: any sequence of grantor operations, with any
\* arguments, on a freshly constructed grantor.
NextGrantor ==
    \/ GrantorNew
    \/ \E secret \in Secrets : GrantorConfigure(secret)
    \/ GrantorValidate
    \/ \E method \in MethodArgs, claims \in ClaimArgs, sign \in SignBehaviours :
          GrantorGrantToken(method, claims, sign)

SpecGrantor == Init /\ [][NextGrantor]_vars

\* ------------------------------------------------------------------ claims
AuthDone(t) == thr[t].pc = "done" /\ thr[t].op = "auth"
InSetup(t) == thr[t].pc \in {"setup1", "setup2"}

\* The outcome the classification of a validator result calls for.
Expected(v) ==
    IF v.err # NoErr /\ Contains(v.err, ForbiddenMarker) THEN "forbidden"
    ELSE IF v.err # NoErr THEN "unauthorized"
    ELSE IF ~v.validUser THEN "invalid_user"
    ELSE IF v.claims.nil THEN "nil_claims"
    ELSE "success"

\* One cookie-expire header for each name of the set, none missing, none twice.
OnePerCookie(sent, names) ==
    /\ Len(sent) = Cardinality(names)
    /\ \A k \in names : \E i \in 1..Len(sent) :
          sent[i] = k \o "=delete; path=/; expires=Thu, 01 Jan 1970 00:00:00 GMT"

\* C1: for every policy name the one-time setup runs at most once, with at
\* most one setup in flight, and every caller that went to the pool for the
\* name (directly or through Authenticate's lazy bind) ends with the entry's
\* one final outcome: the provisioned entry for all, or the same failure
\* (Authenticate: status 500 and the pool's error) for all.
C1_SetupOnceSameOutcome ==
    \A n \in Names :
        /\ setupCount[n] <= 1
        /\ Cardinality({t \in Threads : InSetup(t) /\ thr[t].name = n}) <= 1
        /\ \A t \in Threads :
              (thr[t].pc = "done" /\ thr[t].consulted /\ thr[t].name = n) =>
                 /\ setupCount[n] = 1
                 /\ EntryState(n) \in {"provisioned", "failed"}
                 /\ EntryState(n) = "provisioned" =>
                       /\ thr[t].observed = "ok"
                       /\ thr[t].op = "prov" => thr[t].inst = pool[n] /\ thr[t].err = NoErr
                       /\ thr[t].op = "auth" =>
                             /\ thr[t].validated
                             /\ thr[t].src = pool[n]
                             /\ thr[t].m.Provisioned
                 /\ EntryState(n) = "failed" =>
                       /\ thr[t].observed = "fail"
                       /\ thr[t].err = PoolProvisionError(n)
                       /\ thr[t].op = "prov" => thr[t].inst = None
                       /\ thr[t].op = "auth" => thr[t].w.status = 500 /\ ~thr[t].validated

\* Two callers whose calls both began before the setup failed, one through
\* Authenticate, both ended with the failure.
C1_Witness ==
    \E t1, t2 \in Threads :
        /\ t1 # t2
        /\ thr[t1].name = thr[t2].name
        /\ thr[t1].pc = "done" /\ thr[t2].pc = "done"
        /\ thr[t1].op = "auth"
        /\ thr[t1].observed = "fail" /\ thr[t2].observed = "fail"
        /\ ~thr[t1].failedAtEntry /\ ~thr[t2].failedAtEntry

\* C2: a call that begins once the setup of its policy name has failed never
\* runs the setup and returns a provisioning failure: Provision(name) the
\* pool's error and no instance, Authenticate (on any handler instance of the
\* name) status 500 with body `Internal Server Error`, a provisioning error,
\* no validator call and no authenticated user.
C2_FailurePermanent ==
    \A t \in Threads :
        thr[t].failedAtEntry =>
            /\ ~InSetup(t)
            /\ setupCount[thr[t].name] = 1
            /\ EntryState(thr[t].name) = "failed"
            /\ ~thr[t].validated
            /\ thr[t].pc \notin {"opts", "validate"}
            /\ thr[t].pc = "done" =>
                  /\ thr[t].err \in ProvisionErrors
                  /\ thr[t].op = "prov" =>
                        thr[t].inst = None /\ thr[t].err = PoolProvisionError(thr[t].name)
                  /\ thr[t].op = "auth" =>
                        /\ thr[t].w.status = 500
                        /\ thr[t].w.nwrites = 1
                        /\ thr[t].w.body = <<"Internal Server Error">>
                        /\ ~thr[t].authenticated
                        /\ thr[t].user = EmptyUser

\* After the failure, a request on a handler instance that is not the
\* registry entry itself has been answered.
C2_Witness ==
    \E t \in Threads :
        /\ AuthDone(t)
        /\ thr[t].failedAtEntry
        /\ pool[thr[t].name] # thr[t].h
        /\ thr[t].w.status = 500

\* C3: the configuration Authenticate hands to the validator has completed
\* its setup, whether it is the handler instance's own copy or the one
\* fetched from the pool.
C3_NoPartialConfig ==
    \A t \in Threads : thr[t].validated => thr[t].readyAtValidate

\* C4: a finished Authenticate call has executed exactly one return, its
\* outcome is the one its inputs call for, and the status was written once
\* (with one body) on every outcome but success, where nothing was written;
\* a call that has not finished has written nothing.
C4_ExactlyOneOutcome ==
    \A t \in Threads :
        /\ thr[t].pc # "done" => thr[t].w.nwrites = 0 /\ thr[t].nret = 0
        /\ AuthDone(t) =>
              /\ ~thr[t].panic
              /\ thr[t].nret = 1
              /\ thr[t].outcome = IF thr[t].validated THEN Expected(thr[t].v)
                                  ELSE "provision_failed"
              /\ thr[t].w.nwrites = IF thr[t].outcome = "success" THEN 0 ELSE 1
              /\ Len(thr[t].w.body) = thr[t].w.nwrites
              /\ thr[t].w.status =
                    CASE thr[t].outcome = "success" -> 0
                      [] thr[t].outcome = "provision_failed" -> 500
                      [] thr[t].outcome = "forbidden" ->
                            IF thr[t].m.cfg.ForbiddenURL # "" THEN 303 ELSE 403
                      [] OTHER -> 302
              /\ thr[t].authenticated <=> thr[t].outcome = "success"

\* An invalid user with a claim set was answered: the next test would have
\* let the call through.
C4_Witness ==
    \E t \in Threads :
        /\ AuthDone(t)
        /\ thr[t].outcome = "invalid_user"
        /\ ~thr[t].v.claims.nil
        /\ thr[t].w.status = 302

\* C5: when the handler's ProvisionFailed flag is set as Authenticate is
\* entered, the call answers 500 `Internal Server Error` and returns
\* ErrProvisonFailed, without consulting the pool, calling the validator or
\* authenticating a user, whatever the configuration and the request.
C5_FailedFlagFirst ==
    \A t \in Threads :
        (thr[t].op = "auth" /\ thr[t].flagAtEntry) =>
            /\ ~thr[t].consulted
            /\ ~thr[t].validated
            /\ thr[t].pc \in {"copy", "done"}
            /\ thr[t].pc = "done" =>
                  /\ thr[t].w.status = 500
                  /\ thr[t].w.body = <<"Internal Server Error">>
                  /\ thr[t].w.nwrites = 1
                  /\ thr[t].err = ErrProvisonFailed
                  /\ ~thr[t].authenticated
                  /\ thr[t].user = EmptyUser

C5_Witness ==
    \E t \in Threads : AuthDone(t) /\ thr[t].flagAtEntry /\ thr[t].w.status = 500

\* C6: a validator error without the forbidden-role marker is answered 302
\* `Unauthorized`, with exactly one cookie-expire Set-Cookie header for each
\* cookie name of the validator, and the error is returned with no user.
C6_OtherErrorPurges ==
    \A t \in Threads :
        (AuthDone(t) /\ thr[t].validated /\ thr[t].v.err # NoErr
           /\ ~Contains(thr[t].v.err, ForbiddenMarker)) =>
            /\ thr[t].w.status = 302
            /\ thr[t].w.body = <<"Unauthorized">>
            /\ OnePerCookie(thr[t].w.sentCookies, thr[t].m.cfg.Cookies)
            /\ thr[t].err = thr[t].v.err
            /\ ~thr[t].authenticated
            /\ thr[t].user = EmptyUser

\* An error that only resembles the marker, under a policy with two cookies.
C6_Witness ==
    \E t \in Threads :
        /\ AuthDone(t) /\ thr[t].validated
        /\ thr[t].v.err = ErrNearMiss
        /\ Cardinality(thr[t].m.cfg.Cookies) = 2
        /\ thr[t].w.status = 302

\* C7: with no validator error, an invalid user is answered 302
\* `Unauthorized User` and a valid user with a nil claim set 302
\* `User Unauthorized`; both with the cookie purge and the login redirect,
\* a nil error, no user, and without dereferencing the nil claim set.
C7_InvalidUserAndNilClaims ==
    \A t \in Threads :
        (AuthDone(t) /\ thr[t].validated /\ thr[t].v.err = NoErr
           /\ (~thr[t].v.validUser \/ thr[t].v.claims.nil)) =>
            /\ ~thr[t].panic
            /\ thr[t].w.status = 302
            /\ thr[t].w.body = IF ~thr[t].v.validUser THEN <<"Unauthorized User">>
                               ELSE <<"User Unauthorized">>
            /\ OnePerCookie(thr[t].w.sentCookies, thr[t].m.cfg.Cookies)
            /\ thr[t].w.sentLocation = <<LoginRedirect(thr[t].r, thr[t].m.cfg)>>
            /\ thr[t].err = NoErr
            /\ ~thr[t].authenticated
            /\ thr[t].user = EmptyUser

\* A valid user without claims was answered.
C7_Witness ==
    \E t \in Threads :
        /\ AuthDone(t) /\ thr[t].validated
        /\ thr[t].v.err = NoErr /\ thr[t].v.validUser /\ thr[t].v.claims.nil
        /\ thr[t].w.body = <<"User Unauthorized">>

\* C8: a validator error with the forbidden-role marker under a non-empty
\* ForbiddenURL is answered 303 with the Location header equal to that URL
\* (not the login redirect), body `Forbidden`, and the error is returned.
C8_ForbiddenRedirect ==
    \A t \in Threads :
        (AuthDone(t) /\ thr[t].validated /\ Contains(thr[t].v.err, ForbiddenMarker)
           /\ thr[t].m.cfg.ForbiddenURL # "") =>
            /\ thr[t].w.status = 303
            /\ thr[t].w.sentLocation = <<thr[t].m.cfg.ForbiddenURL>>
            /\ thr[t].w.sentLocation # <<LoginRedirect(thr[t].r, thr[t].m.cfg)>>
            /\ thr[t].w.body = <<"Forbidden">>
            /\ thr[t].err = thr[t].v.err

C8_Witness ==
    \E t \in Threads :
        /\ AuthDone(t) /\ thr[t].validated
        /\ thr[t].v.err = ErrForbiddenWrapped
        /\ thr[t].m.cfg.ForbiddenURL = "/forbidden"
        /\ thr[t].w.status = 303

\* C9: a validator error with the forbidden-role marker under an empty
\* ForbiddenURL is answered 403 with no Location header, body `Forbidden`,
\* and the error is returned.
C9_ForbiddenPlain ==
    \A t \in Threads :
        (AuthDone(t) /\ thr[t].validated /\ Contains(thr[t].v.err, ForbiddenMarker)
           /\ thr[t].m.cfg.ForbiddenURL = "") =>
            /\ thr[t].w.status = 403
            /\ thr[t].w.sentLocation = <<>>
            /\ thr[t].w.location = <<>>
            /\ thr[t].w.body = <<"Forbidden">>
            /\ thr[t].err = thr[t].v.err

C9_Witness ==
    \E t \in Threads :
        /\ AuthDone(t) /\ thr[t].validated
        /\ thr[t].v.err = ErrForbiddenBare
        /\ thr[t].m.cfg.ForbiddenURL = ""
        /\ thr[t].w.status = 403

\* C10: with ValidateMethodPath set, the options a request hands to the
\* validator are an object of its own whose metadata hold that request's
\* method and path, and no request ever changes the metadata of the shared
\* options of a handler instance.
C10_OptionsPerRequest ==
    /\ \A h \in Handlers : optsMeta[h] = NoMeta
    /\ \A t \in Threads :
          (thr[t].validated /\ thr[t].m.cfg.ValidateMethodPath) =>
              /\ thr[t].opts = CloneId(t)
              /\ thr[t].optsAtValidate = [method |-> thr[t].r.Method, path |-> thr[t].r.Path]

\* Two requests with different methods and paths were validated against the
\* same policy.
C10_Witness ==
    \E t1, t2 \in Threads :
        /\ t1 # t2
        /\ thr[t1].validated /\ thr[t2].validated
        /\ thr[t1].m.cfg.ValidateMethodPath /\ thr[t2].m.cfg.ValidateMethodPath
        /\ thr[t1].src = thr[t2].src
        /\ thr[t1].r.Method # thr[t2].r.Method
        /\ thr[t1].r.Path # thr[t2].r.Path

RECURSIVE SpaceJoined(_)
\* The role strings in their given order, one space between neighbours.
SpaceJoined(roles) ==
    IF Len(roles) = 0 THEN ""
    ELSE IF Len(roles) = 1 THEN roles[1]
    ELSE SpaceJoined(SubSeq(roles, 1, Len(roles) - 1)) \o " " \o roles[Len(roles)]

Succeeded(t) == AuthDone(t) /\ thr[t].outcome = "success"

\* C11: on the success outcome the identity's ID is the claim set's email,
\* its metadata `roles` is the role strings joined by single spaces in their
\* given order ([admin, user] gives `admin user`), and the metadata has the
\* key `name` (`email`) exactly when the claim is non-empty, with the
\* claim's value; it has no other key.
C11_IdentityFromClaims ==
    \A t \in Threads :
        Succeeded(t) =>
            LET c == thr[t].v.claims
                md == thr[t].user.Metadata
            IN /\ thr[t].user.ID = c.Email
               /\ "roles" \in DOMAIN md
               /\ md["roles"] = SpaceJoined(c.Roles)
               /\ c.Roles = <<"admin", "user">> => md["roles"] = "admin user"
               /\ ("name" \in DOMAIN md) <=> (c.Name # "")
               /\ ("email" \in DOMAIN md) <=> (c.Email # "")
               /\ c.Name # "" => md["name"] = c.Name
               /\ c.Email # "" => md["email"] = c.Email
               /\ DOMAIN md \subseteq {"roles", "name", "email"}

\* A claim set with two roles and an email but no name was accepted.
C11_Witness ==
    \E t \in Threads :
        /\ Succeeded(t)
        /\ thr[t].v.claims.Roles = <<"admin", "user">>
        /\ thr[t].v.claims.Name = ""
        /\ thr[t].v.claims.Email = "a@b.com"
        /\ thr[t].user.Metadata["roles"] = "admin user"

C13_GrantTokenPrecedence ==
    gcall.op = "GrantToken" =>
        IF gcall.method \notin {"HS256", "HS384", "HS512"}
        THEN /\ gcall.err = <<"grantor does not support ", gcall.method, " token signing method">>
             /\ gcall.token = ""
             /\ ~gcall.signed
        ELSE IF gcall.claims.nil
        THEN /\ gcall.err = <<"provided claims are nil">>
             /\ gcall.token = ""
             /\ ~gcall.signed
        ELSE IF gcall.secret = ""
        THEN /\ gcall.err = <<"grantor token secret not configured">>
             /\ gcall.token = ""
             /\ ~gcall.signed
        ELSE /\ gcall.signed
             /\ [method |-> gcall.method, claims |-> gcall.claims, secret |-> gcall.secret]
                   \in signLog
             /\ LET res == GetToken(gcall.claims, gcall.method, gcall.secret, gcall.sign)
                IN gcall.token = res.token /\ gcall.err = res.err

\* GrantToken was called with an unregistered method, nil claims and an empty
\* secret at once, and named the method.
C13_Witness ==
    /\ gcall.op = "GrantToken"
    /\ gcall.method = "RS256"
    /\ gcall.claims.nil
    /\ gcall.secret = ""
    /\ gcall.err = <<"grantor does not support ", "RS256", " token signing method">>

\* C14: whatever the sequence of grantor operations, the signing routine is
\* only ever called with a non-empty secret, a method of the method table and
\* non-nil claims, whether or not Validate() was called before; and
\* Validate() returns the empty-secret error exactly when the secret is empty
\* and nil otherwise.
C14_NoSigningWithEmptySecret ==
    /\ \A e \in signLog :
          /\ e.secret # ""
          /\ e.method \in {"HS256", "HS384", "HS512"}
          /\ ~e.claims.nil
    /\ gcall.signed => gcall.secret # ""
    /\ gcall.op = "Validate" =>
          /\ gcall.secret = "" => gcall.err = <<"grantor token secret not configured">>
          /\ gcall.secret # "" => gcall.err = NoErr

\* GrantToken reached the signing routine on a grantor whose Validate() was
\* never called.
C14_Witness ==
    /\ gcall.op = "GrantToken"
    /\ gcall.signed
    /\ ~gcall.validatedBefore
    /\ signLog # {}

\* The handler instances that are registry entries.
Entries == {h \in Handlers : \E n \in Names : pool[n] = h}

\* C15: the registry holds at most one entry per policy name. A Register
\* (through the handler's Provision) of a name that is absent inserts the
\* instance; of a name whose entry has the same configuration it succeeds
\* and shares the entry; of a name whose entry is configured differently it
\* fails, Provision returns the registration error, and the entry is as it
\* was. No other step changes the registry.
C15_RegisterOncePerName ==
    [][ /\ \A n \in Names :
              /\ pool[n] # None => pool'[n] = pool[n] /\ config'[pool[n]] = config[pool[n]]
              /\ pool'[n] # None => HName(pool'[n]) = n
              /\ Cardinality({h \in Entries' : HName(h) = n}) <= 1
        /\ \A h \in Handlers :
              LET n == HName(h) IN
              IF regState[h] = "new" /\ regState'[h] # "new"
              THEN IF pool[n] = None
                   THEN pool'[n] = h /\ regState'[h] = "registered" /\ provErr'[h] = NoErr
                   ELSE IF config[pool[n]] = config[h]
                   THEN regState'[h] = "registered" /\ provErr'[h] = NoErr
                   ELSE /\ regState'[h] = "rejected"
                        /\ provErr'[h] = <<"authentication provider registration error, instance ",
                                           n, ", error: ", "conflicting registration for ", n>>
                        /\ pool' = pool
                        /\ handlers' = handlers
              ELSE regState'[h] = regState[h] /\ provErr'[h] = provErr[h]
        /\ \A h \in Handlers :
              regState'[h] = "registered" => config'[h] = config'[pool'[HName(h)]]
      ]_vars

\* A handler instance configured differently from the entry of its name was
\* refused, and the entry is still the first instance.
C15_Witness ==
    /\ regState["h1"] = "registered"
    /\ regState["h2"] = "rejected"
    /\ pool["n1"] = "h1"
    /\ config["h1"] # config["h2"]
    /\ provErr["h2"] # NoErr

\* The steps of a registry entry's lifecycle.
LifecycleSteps ==
    {<<"absent", "unprovisioned">>, <<"unprovisioned", "provisioning">>,
     <<"provisioning", "provisioned">>, <<"provisioning", "failed">>}

\* What a call has seen of the entry of its name agrees with the entry.
SeesEntryState(t) ==
    LET st == EntryState(thr[t].name) IN
    /\ thr[t].m.Provisioned => st = "provisioned"
    /\ thr[t].m.ProvisionFailed => st = "failed"
    /\ thr[t].observed = "ok" => st = "provisioned"
    /\ thr[t].observed = "fail" => st = "failed"
    /\ thr[t].validated => st = "provisioned"

\* C16: the state of a registry entry only moves from unprovisioned to
\* provisioning and from provisioning to provisioned or to failed, the setup
\* running at most once; no instance is both provisioned and failed, a
\* provisioned or failed entry stays so, and what any call on any handler
\* instance of the name has seen of the state is the entry's state.
C16_LifecycleMonotonic ==
    [][ /\ \A h \in Handlers : ~(handlers'[h].Provisioned /\ handlers'[h].ProvisionFailed)
        /\ \A n \in Names :
              /\ setupCount'[n] <= 1
              /\ \/ EntryState(n)' = EntryState(n)
                 \/ <<EntryState(n), EntryState(n)'>> \in LifecycleSteps
        /\ \A t \in Threads : thr'[t].op # None => SeesEntryState(t)'
      ]_vars

\* While the entry of a name is provisioned, a request on a handler instance
\* of the name that is not the entry has seen it provisioned, and so has a
\* request on the entry itself.
C16_Witness ==
    \E t1, t2 \in Threads :
        /\ thr[t1].op = "auth" /\ thr[t2].op = "auth"
        /\ thr[t1].name = thr[t2].name
        /\ thr[t1].h # pool[thr[t1].name]
        /\ thr[t2].h = pool[thr[t2].name]
        /\ thr[t1].observed = "ok"
        /\ thr[t2].m.Provisioned
        /\ EntryState(thr[t1].name) = "provisioned"

\* A caller is inside ProviderPool.Provision for a name that is provisioned.
ReadsProvisioned(t) ==
    thr[t].pc = "bind" /\ EntryState(thr[t].name) = "provisioned"

C18_AuthenticatedOnlyOnSuccess ==
    \A t \in Threads :
        AuthDone(t) =>
            LET full == /\ EntryState(thr[t].name) = "provisioned"
                        /\ ~thr[t].flagAtEntry
                        /\ thr[t].observed # "fail"
                        /\ thr[t].validated
                        /\ thr[t].v.err = NoErr
                        /\ thr[t].v.validUser
                        /\ ~thr[t].v.claims.nil
            IN /\ thr[t].authenticated <=> full
               /\ thr[t].authenticated =>
                     /\ thr[t].user # EmptyUser
                     /\ thr[t].user.ID = thr[t].v.claims.Email
                     /\ "roles" \in DOMAIN thr[t].user.Metadata
                     /\ thr[t].err = NoErr
               /\ ~thr[t].authenticated => thr[t].user = EmptyUser

\* A valid user whose claim set has no email, name, role or subject was
\* authenticated: the identity has an empty ID and is not the empty user.
C18_Witness ==
    \E t \in Threads :
        /\ AuthDone(t)
        /\ thr[t].authenticated
        /\ thr[t].v.claims = ClaimsEmpty
        /\ thr[t].user # EmptyUser

\* The outcomes answered 302.
Outcomes302 == {"unauthorized", "invalid_user", "nil_claims"}

\* C19: the cookie-expire Set-Cookie headers and the login-redirect Location
\* are on the response of exactly the three 302 outcomes (other validator
\* error, invalid user, nil claims); the 500, the 303/403 and the success
\* outcome, and a call that has not finished, have no Set-Cookie header and
\* no login-redirect Location (the 303 has the ForbiddenURL, the others no
\* Location at all).
C19_PurgeAndRedirectOnlyOn302 ==
    \A t \in Threads :
        LET w == thr[t].w
            login == <<LoginRedirect(thr[t].r, thr[t].m.cfg)>>
        IN IF AuthDone(t) /\ thr[t].outcome \in Outcomes302
           THEN /\ w.status = 302
                /\ OnePerCookie(w.sentCookies, thr[t].m.cfg.Cookies)
                /\ w.sentLocation = login
           ELSE /\ w.status # 302
                /\ w.cookies = <<>> /\ w.sentCookies = <<>>
                /\ w.location # login /\ w.sentLocation # login
                /\ w.location = IF w.status = 303 THEN <<thr[t].m.cfg.ForbiddenURL>> ELSE <<>>
                /\ w.sentLocation = w.location

\* A provisioning failure was answered 500 under a policy with two cookies.
C19_Witness ==
    \E t \in Threads :
        /\ AuthDone(t)
        /\ thr[t].outcome = "provision_failed"
        /\ thr[t].w.status = 500
        /\ Cardinality(thr[t].m.cfg.Cookies) = 2

\* The X-Token-* headers a request with the same method, path and claim set
\* as the call of thread t, but with the client-supplied headers hdr, is
\* forwarded with.
ForwardedWith(t, hdr) ==
    StepSuccess([thr[t] EXCEPT !.returned = FALSE,
                               !.r = MkReq(thr[t].r.Method, thr[t].r.Path, hdr)]).r.Header

\* C20: with PassClaimsWithHeaders set, the X-Token-* headers of the
\* forwarded request after a success depend on the claim set only: a request
\* with the same claim set and any other client-supplied X-Token-* headers
\* is forwarded with the same X-Token-* headers, also when the claim set has
\* an empty name, email, subject or role list.
C20_HeadersFromClaimsAlone ==
    \A t \in Threads :
        (Succeeded(t) /\ thr[t].m.cfg.PassClaimsWithHeaders) =>
            \A hdr \in {NoHeaders, ClientHeaders} :
                ForwardedWith(t, hdr) = thr[t].r.Header

====
